---- MODULE Spec2Model ----
(***************************************************************************)
(* A model of CaptureManager (src/scripts/capture.py): caller threads that *)
(* run start_capture, stop_capture and status against one manager, the     *)
(* external ffmpeg processes it spawns, and one _capture_stderr collector  *)
(* thread per spawned process.  Python's interpreter lock makes one        *)
(* attribute read or write atomic; every read or write of a shared field   *)
(* outside the manager's lock is a step of its own.                        *)
(***************************************************************************)
EXTENDS Integers, Sequences, FiniteSets, TLC

\* ------------------------------------------------------------------ bounds
\* start_capture calls that get as far as opening the log, and so the processes
\* the manager may spawn.
MaxProcs == 2
\* Diagnostic lines one process may emit.
MaxLines == 1
\* Characters in a duration string handed to parse_duration.
MaxDurationChars == 6
\* Characters in a name handed to sanitize_filename.
MaxNameChars == 5

\* ------------------------------------------------------- program constants
\* deque(maxlen=50)
TailCap == 50
\* options.test_preview: duration = 10
PreviewSeconds == 10
\* self._process.wait(timeout=5)
GraceSeconds == 5

\* The threads that call the manager: controllers call start_capture and
\* stop_capture, observers call status.
Controllers == {"c1", "c2"}
Observers == {"o1"}
Callers == Controllers \cup Observers
Pids == 1..MaxProcs
NoLock == "free"

None == <<>>
Some(v) == <<v>>

\* CaptureOptions: the fields start_capture branches on vary, the others are fixed.
Durations == {5, 7200}
OptionSet ==
  [ video_device : {"/dev/video0"}, audio_device : {"hw:1,0"},
    input_type : {"composite"}, duration_seconds : Durations,
    preset : {"archival_lossless"}, output_format : {"mkv"},
    filename_prefix : {"capture"}, tape_label : {None},
    dry_run : BOOLEAN, test_preview : BOOLEAN ]
NoOptions == [ video_device |-> "", audio_device |-> "", input_type |-> "",
               duration_seconds |-> 0, preset |-> "", output_format |-> "",
               filename_prefix |-> "", tape_label |-> None,
               dry_run |-> FALSE, test_preview |-> FALSE ]

VARIABLES
  lock,              \* self._lock: the caller holding it, or NoLock
  process,           \* self._process: None or Some(pid)
  stderr_tail,       \* self._stderr_tail
  started_at,        \* self._started_at
  duration_seconds,  \* self._duration_seconds
  output_file,       \* self._output_file
  stderr_thread,     \* self._stderr_thread
  procs,             \* the external processes, by pid
  pipe,              \* each process's stderr pipe: lines written and not yet read
  coll,              \* each process's collector thread
  logfile,           \* the durable log file, in write order
  dirExists,         \* whether output_dir exists
  pc,                \* each caller's position
  loc,               \* each caller's local variables
  result,            \* what each caller's last call returned
  ghost,             \* per call: what happened during it (history only)
  arg,               \* the argument of the module-level function being applied
  ret                \* what that function returned or raised

vars == << lock, process, stderr_tail, started_at, duration_seconds, output_file,
           stderr_thread, procs, pipe, coll, logfile, dirExists, pc, loc,
           result, ghost, arg, ret >>

session == << process, stderr_tail, started_at, duration_seconds, output_file >>
world == << procs, pipe, coll, logfile, dirExists >>
pure == << arg, ret >>
manager == << lock, session, stderr_thread, world, pc, loc, result, ghost >>

\* -------------------------------------------------------------- processes
NoProc == [ state |-> "unborn", sigint |-> FALSE, sigkill |-> FALSE,
            emitted |-> 0, args |-> <<>> ]

\* The operating system's view: the process has been spawned and not terminated.
Alive(p) == procs[p].state = "running"
AnyAlive == \E p \in Pids : Alive(p)
Spawned == { p \in Pids : procs[p].state # "unborn" }
NextPid == Cardinality(Spawned) + 1

\* Popen.poll() is None
PollIsNone(p) == procs[p].state = "running"

\* Mutants of is_running: no check at all, the poll read the wrong way round,
\* the poll left out.
is_running_unchecked == FALSE
is_running_inverted == process # None /\ ~PollIsNone(process[1])
is_running_stale == process # None

\* CaptureManager.is_running
is_running == process # None /\ PollIsNone(process[1])

\* dt.datetime.now(): the clock advances with every spawn, so two sessions never
\* read the same instant.
Now == Cardinality(Spawned)

\* ------------------------------------------------------- pure functions
\* encode_flags
encode_flags(preset) ==
  IF preset = "archival_lossless"
  THEN << "-c:v", "ffv1", "-level", "3", "-g", "1", "-slicecrc", "1", "-c:a", "flac" >>
  ELSE IF preset = "passthrough_if_possible"
  THEN << "-c:v", "copy", "-c:a", "copy" >>
  ELSE << "-c:v", "libx264", "-preset", "veryfast", "-crf", "18",
          "-pix_fmt", "yuv420p", "-c:a", "aac", "-b:a", "192k" >>

\* build_ffmpeg_command
build_ffmpeg_command(options, duration, out) ==
  << "ffmpeg", "-hide_banner", "-loglevel", "info", "-f", "v4l2",
     "-thread_queue_size", "4096", "-i", options.video_device,
     "-f", "alsa", "-thread_queue_size", "4096", "-i", options.audio_device,
     "-t", ToString(duration) >>
  \o encode_flags(options.preset) \o << out >>

\* build_output_path, the path kept as its parts: directory, file stem parts,
\* timestamp and extension.  The prefix and label of OptionSet are already safe.
build_output_path(prefix, tape_label, output_format, now) ==
  [ dir |-> "/output",
    name |-> << IF prefix = "" THEN "capture" ELSE prefix >>
             \o (IF tape_label # None THEN << tape_label[1] >> ELSE << >>),
    stamp |-> now, ext |-> output_format ]

\* Mutant of EffectiveDuration: the preview flag is ignored.
EffectiveDuration_noPreview(options) == options.duration_seconds

\* The local duration of start_capture, lines 61-63.
EffectiveDuration(options) ==
  IF options.test_preview THEN PreviewSeconds ELSE options.duration_seconds

\* deque(maxlen=TailCap).append
DequeAppend(q, x) ==
  IF Len(q) < TailCap THEN Append(q, x) ELSE Append(Tail(q), x)

\* ----------------------------------------------- strings and conversions
\* A Python str is the sequence of its characters.
Digits == << "0", "1", "2", "3", "4", "5", "6", "7", "8", "9" >>
IsDigit(c) == \E i \in DOMAIN Digits : Digits[i] = c
DigitValue(c) == (CHOOSE i \in DOMAIN Digits : Digits[i] = c) - 1
Letters ==
  { "a", "b", "c", "d", "e", "f", "g", "h", "i", "j", "k", "l", "m", "n", "o",
    "p", "q", "r", "s", "t", "u", "v", "w", "x", "y", "z",
    "A", "B", "C", "D", "E", "F", "G", "H", "I", "J", "K", "L", "M", "N", "O",
    "P", "Q", "R", "S", "T", "U", "V", "W", "X", "Y", "Z" }
\* The characters str.strip() and int() take for white space.
Whitespace == { " ", "\t", "\n", "\r", "\f" }

\* str.lstrip, str.rstrip and str.strip with a set of characters
RECURSIVE lstrip(_, _)
lstrip(s, chars) ==
  IF s # << >> /\ Head(s) \in chars THEN lstrip(Tail(s), chars) ELSE s
RECURSIVE rstrip(_, _)
rstrip(s, chars) ==
  IF s # << >> /\ s[Len(s)] \in chars
  THEN rstrip(SubSeq(s, 1, Len(s) - 1), chars) ELSE s
strip(s, chars) == rstrip(lstrip(s, chars), chars)

\* str.split(sep) with a one-character separator: the pieces between the
\* separators, empty pieces included.
RECURSIVE split(_, _)
split(s, sep) ==
  IF \E i \in DOMAIN s : s[i] = sep
  THEN LET i == CHOOSE k \in DOMAIN s : s[k] = sep /\ \A j \in 1..(k - 1) : s[j] # sep
       IN << SubSeq(s, 1, i - 1) >> \o split(SubSeq(s, i + 1, Len(s)), sep)
  ELSE << s >>

\* The value of a run of digits and underscores, the underscores skipped.
RECURSIVE DecimalValue(_)
DecimalValue(s) ==
  IF s = << >> THEN 0
  ELSE IF s[Len(s)] = "_" THEN DecimalValue(SubSeq(s, 1, Len(s) - 1))
  ELSE 10 * DecimalValue(SubSeq(s, 1, Len(s) - 1)) + DigitValue(s[Len(s)])

\* int(str): white space around the literal is dropped, one sign may lead, and
\* the digits may be grouped by single underscores; anything else is a ValueError.
int(s) ==
  LET lit == strip(s, Whitespace)
      signed == lit # << >> /\ Head(lit) \in {"-", "+"}
      body == IF signed THEN Tail(lit) ELSE lit
      valid == /\ body # << >>
               /\ \A i \in DOMAIN body : IsDigit(body[i]) \/ body[i] = "_"
               /\ IsDigit(body[1]) /\ IsDigit(body[Len(body)])
               /\ \A i \in 1..(Len(body) - 1) : ~(body[i] = "_" /\ body[i + 1] = "_")
  IN IF ~valid THEN [ raised |-> TRUE, value |-> 0 ]
     ELSE [ raised |-> FALSE,
            value |-> IF signed /\ Head(lit) = "-" THEN 0 - DecimalValue(body)
                      ELSE DecimalValue(body) ]

\* FILENAME_SAFE = re.compile(r"[^a-zA-Z0-9_-]+"): the characters the pattern
\* matches.
FILENAME_SAFE(c) == ~(c \in Letters \/ IsDigit(c) \/ c \in {"_", "-"})

\* FILENAME_SAFE.sub(repl, s): every maximal run of matching characters becomes
\* one repl.
RECURSIVE FILENAME_SAFE_sub(_, _)
FILENAME_SAFE_sub(repl, s) ==
  IF s = << >> THEN << >>
  ELSE IF ~FILENAME_SAFE(Head(s)) THEN << Head(s) >> \o FILENAME_SAFE_sub(repl, Tail(s))
  ELSE IF Tail(s) # << >> /\ FILENAME_SAFE(Head(Tail(s)))
  THEN FILENAME_SAFE_sub(repl, Tail(s))
  ELSE << repl >> \o FILENAME_SAFE_sub(repl, Tail(s))

\* Mutant of sanitize_filename: the underscores at the ends are kept.
sanitize_filename_untrimmed(value) ==
  LET cleaned == FILENAME_SAFE_sub("_", strip(value, Whitespace))
  IN IF cleaned = << >> THEN << "c", "a", "p", "t", "u", "r", "e" >> ELSE cleaned

\* sanitize_filename
sanitize_filename(value) ==
  LET cleaned == FILENAME_SAFE_sub("_", strip(value, Whitespace))
      trimmed == strip(cleaned, {"_"})
  IN IF trimmed = << >> THEN << "c", "a", "p", "t", "u", "r", "e" >> ELSE trimmed

\* What a function call gave: a value, or an exception with its message.
Returns(fn, v) == [ fn |-> fn, raised |-> FALSE, value |-> v ]
Raises(fn, msg) == [ fn |-> fn, raised |-> TRUE, value |-> msg ]

\* parse_duration
parse_duration(value) ==
  IF value = << >> THEN Raises("parse_duration", "Duration is required.")
  ELSE LET parts == split(value, ":")
       IN IF Len(parts) # 3
          THEN Raises("parse_duration", "Duration must be in HH:MM:SS format.")
          ELSE IF \E i \in 1..3 : int(parts[i]).raised
          THEN Raises("parse_duration", "invalid literal for int() with base 10")
          ELSE Returns("parse_duration",
                       int(parts[1]).value * 3600 + int(parts[2]).value * 60
                         + int(parts[3]).value)

\* build_options (src/app/main.py): the devices are required, the duration is
\* parsed, a ValueError becomes HTTP 400, everything else is passed on.
build_options(video_device, audio_device, input_type, duration, preset, output_format, filename_prefix, tape_label, dry_run, test_preview) ==
  IF video_device = "" \/ audio_device = ""
  THEN Raises("build_options", "Video and audio devices are required.")
  ELSE LET parsed == parse_duration(duration)
       IN IF parsed.raised THEN Raises("build_options", parsed.value)
          ELSE Returns("build_options",
                 [ video_device |-> video_device, audio_device |-> audio_device,
                   input_type |-> input_type, duration_seconds |-> parsed.value,
                   preset |-> preset, output_format |-> output_format,
                   filename_prefix |-> filename_prefix,
                   tape_label |-> IF tape_label = "" THEN None ELSE Some(tape_label),
                   dry_run |-> dry_run # "", test_preview |-> test_preview # "" ])

\* ------------------------------------------------------------------ init
NoStatus == [ running |-> FALSE, output_file |-> None, started_at |-> None,
              duration_seconds |-> None, stderr_tail |-> << >> ]
NoLocals == [ options |-> NoOptions, duration |-> 0, out |-> None, cmd |-> << >>,
              proc |-> 0, waited |-> 0, snap |-> NoStatus ]
\* History of the call in progress (or of the last one): whether any process was
\* alive when the call checked, what the call did, what the signals reached.
NoGhost == [ op |-> "none", aliveAtCheck |-> FALSE,
             effects |-> {}, delivered |-> FALSE, kills |-> 0, waited |-> 0,
             target |-> 0, timedOut |-> FALSE, sawProc |-> None,
             torn |-> FALSE ]
NoResult == [ returned |-> FALSE, raised |-> FALSE, ok |-> FALSE, msg |-> "",
              out |-> None, cmd |-> << >>, status |-> NoStatus ]

\* No module-level function has been applied.
NoReturn == [ fn |-> "none", raised |-> FALSE, value |-> << >> ]

\* CaptureManager.__init__
InitManager ==
  /\ lock = NoLock
  /\ process = None
  /\ stderr_tail = << >>
  /\ started_at = None
  /\ duration_seconds = None
  /\ output_file = None
  /\ stderr_thread = None
  /\ procs = [ p \in Pids |-> NoProc ]
  /\ pipe = [ p \in Pids |-> << >> ]
  /\ coll = [ p \in Pids |-> "none" ]
  /\ logfile = << >>
  /\ dirExists = FALSE
  /\ pc = [ t \in Callers |-> "idle" ]
  /\ loc = [ t \in Callers |-> NoLocals ]
  /\ result = [ t \in Callers |-> NoResult ]
  /\ ghost = [ t \in Callers |-> NoGhost ]

Init ==
  /\ InitManager
  /\ arg = << >>
  /\ ret = NoReturn

\* ---------------------------------------------------------- start_capture
\* The bound on the model: a start_capture call begins only while fewer than
\* MaxProcs calls have opened the log or may still do so.
StartMarkers == { i \in DOMAIN logfile : logfile[i].kind = "start" }
StartsPending == { u \in Callers : pc[u] \in {"s_lock", "s_check", "s_prepare"} }
StartBudget == Cardinality(StartMarkers) + Cardinality(StartsPending) < MaxProcs

StartCall(t) ==
  /\ pc[t] = "idle"
  /\ StartBudget
  /\ pc' = [pc EXCEPT ![t] = "s_lock"]
  /\ UNCHANGED loc
  /\ result' = [result EXCEPT ![t] = NoResult]
  /\ ghost' = [ghost EXCEPT ![t] = [NoGhost EXCEPT !.op = "start"]]
  /\ UNCHANGED << lock, session, stderr_thread, world >>
  /\ UNCHANGED pure

\* Mutant of StartAcquire: start_capture goes on without waiting for the lock.
StartAcquire_unguarded(t) ==
  /\ pc[t] = "s_lock"
  /\ lock' = t
  /\ pc' = [pc EXCEPT ![t] = "s_check"]
  /\ UNCHANGED << session, stderr_thread, world, loc, result, ghost, pure >>

\* with self._lock:
StartAcquire(t) ==
  /\ pc[t] = "s_lock"
  /\ lock = NoLock
  /\ lock' = t
  /\ pc' = [pc EXCEPT ![t] = "s_check"]
  /\ UNCHANGED << session, stderr_thread, world, loc, result, ghost >>
  /\ UNCHANGED pure

\* Mutant of StartCheck: a dry run creates the output directory before it returns.
StartCheck_dryRunMkdir(t, o) ==
  /\ pc[t] = "s_check"
  /\ ~is_running
  /\ o.dry_run
  /\ LET duration == EffectiveDuration(o)
         out == build_output_path(o.filename_prefix, o.tape_label, o.output_format, Now)
     IN result' = [result EXCEPT ![t] = [NoResult EXCEPT !.returned = TRUE,
                     !.ok = TRUE, !.msg = "Dry run command:",
                     !.cmd = build_ffmpeg_command(o, duration, out), !.out = Some(out)]]
  /\ dirExists' = TRUE
  /\ lock' = NoLock
  /\ pc' = [pc EXCEPT ![t] = "done"]
  /\ loc' = [loc EXCEPT ![t].options = o]
  /\ ghost' = [ghost EXCEPT ![t].aliveAtCheck = AnyAlive]
  /\ UNCHANGED << session, stderr_thread, procs, pipe, coll, logfile, pure >>

\* Lines 59-72: the liveness check, the duration, the path, the command and the
\* dry-run return.  None of it touches shared state.
StartCheck(t, o) ==
  /\ pc[t] = "s_check"
  /\ LET duration == EffectiveDuration(o)
         out == build_output_path(o.filename_prefix, o.tape_label, o.output_format, Now)
         cmd == build_ffmpeg_command(o, duration, out)
         g == [ghost[t] EXCEPT !.aliveAtCheck = AnyAlive]
     IN IF is_running
        THEN /\ result' = [result EXCEPT ![t] = [NoResult EXCEPT !.returned = TRUE,
                              !.ok = FALSE, !.msg = "Capture already running."]]
             /\ lock' = NoLock
             /\ pc' = [pc EXCEPT ![t] = "done"]
             /\ loc' = [loc EXCEPT ![t].options = o]
             /\ ghost' = [ghost EXCEPT ![t] = g]
        ELSE IF o.dry_run
        THEN /\ result' = [result EXCEPT ![t] = [NoResult EXCEPT !.returned = TRUE,
                              !.ok = TRUE, !.msg = "Dry run command:", !.cmd = cmd,
                              !.out = Some(out)]]
             /\ lock' = NoLock
             /\ pc' = [pc EXCEPT ![t] = "done"]
             /\ loc' = [loc EXCEPT ![t].options = o]
             /\ ghost' = [ghost EXCEPT ![t] = g]
        ELSE /\ loc' = [loc EXCEPT ![t].options = o, ![t].duration = duration,
                                    ![t].out = Some(out), ![t].cmd = cmd]
             /\ pc' = [pc EXCEPT ![t] = "s_prepare"]
             /\ ghost' = [ghost EXCEPT ![t] = g]
             /\ UNCHANGED << lock, result >>
  /\ UNCHANGED << session, stderr_thread, world >>
  /\ UNCHANGED pure

\* Lines 73-77: ensure_directory, set_input_type, open the log and write the
\* start marker.
StartPrepare(t) ==
  /\ pc[t] = "s_prepare"
  /\ dirExists' = TRUE
  /\ logfile' = Append(logfile, [kind |-> "start", handle |-> NextPid, line |-> 0])
  /\ pc' = [pc EXCEPT ![t] = "s_spawn"]
  /\ ghost' = [ghost EXCEPT ![t].effects = @ \cup {"mkdir", "log"}]
  /\ UNCHANGED << lock, session, stderr_thread, procs, pipe, coll, loc, result >>
  /\ UNCHANGED pure

\* Line 78, subprocess.Popen succeeding.
StartSpawn(t) ==
  /\ pc[t] = "s_spawn"
  /\ procs' = [procs EXCEPT ![NextPid] = [NoProc EXCEPT !.state = "running",
                                                         !.args = loc[t].cmd]]
  /\ loc' = [loc EXCEPT ![t].proc = NextPid]
  /\ pc' = [pc EXCEPT ![t] = "s_process"]
  /\ ghost' = [ghost EXCEPT ![t].effects = @ \cup {"spawn"}, ![t].target = NextPid]
  /\ UNCHANGED << lock, session, stderr_thread, pipe, coll, logfile, dirExists, result >>
  /\ UNCHANGED pure

\* Mutant of StartSpawnFails: the exception leaves the lock held.
StartSpawnFails_lockHeld(t) ==
  /\ pc[t] = "s_spawn"
  /\ result' = [result EXCEPT ![t] = [NoResult EXCEPT !.raised = TRUE]]
  /\ pc' = [pc EXCEPT ![t] = "done"]
  /\ UNCHANGED << lock, loc, session, stderr_thread, world, ghost, pure >>

\* Line 78, subprocess.Popen raising (no executable, no resources): the exception
\* leaves the with block, which releases the lock.
StartSpawnFails(t) ==
  /\ pc[t] = "s_spawn"
  /\ result' = [result EXCEPT ![t] = [NoResult EXCEPT !.raised = TRUE]]
  /\ lock' = NoLock
  /\ pc' = [pc EXCEPT ![t] = "done"]
  /\ UNCHANGED loc
  /\ UNCHANGED << session, stderr_thread, world, ghost >>
  /\ UNCHANGED pure

\* Line 84: self._process = process
StartSetProcess(t) ==
  /\ pc[t] = "s_process"
  /\ process' = Some(loc[t].proc)
  /\ pc' = [pc EXCEPT ![t] = "s_clear"]
  /\ UNCHANGED << lock, stderr_tail, started_at, duration_seconds, output_file,
                  stderr_thread, world, loc, result, ghost >>
  /\ UNCHANGED pure

\* Line 85: self._stderr_tail.clear()
StartClearTail(t) ==
  /\ pc[t] = "s_clear"
  /\ stderr_tail' = << >>
  /\ pc' = [pc EXCEPT ![t] = "s_started"]
  /\ UNCHANGED << lock, process, started_at, duration_seconds, output_file,
                  stderr_thread, world, loc, result, ghost >>
  /\ UNCHANGED pure

\* Line 86: self._started_at = dt.datetime.now()
StartSetStartedAt(t) ==
  /\ pc[t] = "s_started"
  /\ started_at' = Some(Now)
  /\ pc' = [pc EXCEPT ![t] = "s_duration"]
  /\ UNCHANGED << lock, process, stderr_tail, duration_seconds, output_file,
                  stderr_thread, world, loc, result, ghost >>
  /\ UNCHANGED pure

\* Line 87: self._duration_seconds = duration
StartSetDuration(t) ==
  /\ pc[t] = "s_duration"
  /\ duration_seconds' = Some(loc[t].duration)
  /\ pc' = [pc EXCEPT ![t] = "s_output"]
  /\ UNCHANGED << lock, process, stderr_tail, started_at, output_file,
                  stderr_thread, world, loc, result, ghost >>
  /\ UNCHANGED pure

\* Line 88: self._output_file = output_file
StartSetOutputFile(t) ==
  /\ pc[t] = "s_output"
  /\ output_file' = loc[t].out
  /\ pc' = [pc EXCEPT ![t] = "s_thread"]
  /\ UNCHANGED << lock, process, stderr_tail, started_at, duration_seconds,
                  stderr_thread, world, loc, result, ghost >>
  /\ UNCHANGED pure

\* Lines 89-95: start the collector thread and return.
StartThread(t) ==
  /\ pc[t] = "s_thread"
  /\ stderr_thread' = Some(loc[t].proc)
  /\ coll' = [coll EXCEPT ![loc[t].proc] = "run"]
  /\ result' = [result EXCEPT ![t] = [NoResult EXCEPT !.returned = TRUE, !.ok = TRUE,
                        !.msg = "Capture started.", !.out = loc[t].out]]
  /\ lock' = NoLock
  /\ pc' = [pc EXCEPT ![t] = "done"]
  /\ UNCHANGED loc
  /\ UNCHANGED << session, procs, pipe, logfile, dirExists, ghost >>
  /\ UNCHANGED pure

\* ----------------------------------------------------------- stop_capture
StopCall(t) ==
  /\ pc[t] = "idle"
  /\ pc' = [pc EXCEPT ![t] = "p_lock"]
  /\ UNCHANGED loc
  /\ result' = [result EXCEPT ![t] = NoResult]
  /\ ghost' = [ghost EXCEPT ![t] = [NoGhost EXCEPT !.op = "stop"]]
  /\ UNCHANGED << lock, session, stderr_thread, world >>
  /\ UNCHANGED pure

\* with self._lock:
StopAcquire(t) ==
  /\ pc[t] = "p_lock"
  /\ lock = NoLock
  /\ lock' = t
  /\ pc' = [pc EXCEPT ![t] = "p_check"]
  /\ UNCHANGED << session, stderr_thread, world, loc, result, ghost >>
  /\ UNCHANGED pure

\* Lines 111-113: if not self.is_running(): return False, "No capture running."
StopCheck(t) ==
  /\ pc[t] = "p_check"
  /\ IF ~is_running
     THEN /\ result' = [result EXCEPT ![t] = [NoResult EXCEPT !.returned = TRUE,
                           !.ok = FALSE, !.msg = "No capture running."]]
          /\ lock' = NoLock
          /\ pc' = [pc EXCEPT ![t] = "done"]
          /\ ghost' = [ghost EXCEPT ![t].aliveAtCheck = AnyAlive]
     ELSE /\ pc' = [pc EXCEPT ![t] = "p_signal"]
          /\ ghost' = [ghost EXCEPT ![t].aliveAtCheck = AnyAlive,
                                    ![t].target = process[1]]
          /\ UNCHANGED << lock, result >>
  /\ UNCHANGED << session, stderr_thread, world, loc >>
  /\ UNCHANGED pure

\* Mutant of Deliver: the signal is never sent.
Deliver_lost(p, sig) == procs

\* Popen.send_signal and Popen.kill poll first: a process that has terminated
\* gets no signal, a live one gets it.
Deliver(p, sig) ==
  IF Alive(p) THEN [procs EXCEPT ![p][sig] = TRUE] ELSE procs

\* Line 114: self._process.send_signal(signal.SIGINT)
StopSignal(t) ==
  /\ pc[t] = "p_signal"
  /\ procs' = Deliver(process[1], "sigint")
  /\ ghost' = [ghost EXCEPT ![t].effects = @ \cup {"send_signal"},
                            ![t].delivered = Alive(process[1])]
  /\ pc' = [pc EXCEPT ![t] = "p_wait"]
  /\ UNCHANGED << lock, session, stderr_thread, pipe, coll, logfile, dirExists,
                  loc, result >>
  /\ UNCHANGED pure

\* Line 116, self._process.wait(timeout=5): the timeout runs out while the
\* process is alive.  Nothing else reads the time, so the seconds pass in one step.
StopWaitPasses(t) ==
  /\ pc[t] = "p_wait"
  /\ Alive(process[1])
  /\ loc[t].waited < GraceSeconds
  /\ loc' = [loc EXCEPT ![t].waited = GraceSeconds]
  /\ ghost' = [ghost EXCEPT ![t].waited = GraceSeconds]
  /\ UNCHANGED << lock, session, stderr_thread, world, pc, result >>
  /\ UNCHANGED pure

\* Lines 116 and 119: wait returns because the process has terminated.
StopWaitExited(t) ==
  /\ pc[t] = "p_wait"
  /\ ~Alive(process[1])
  /\ result' = [result EXCEPT ![t] = [NoResult EXCEPT !.returned = TRUE,
                        !.ok = TRUE, !.msg = "Stop signal sent."]]
  /\ lock' = NoLock
  /\ pc' = [pc EXCEPT ![t] = "done"]
  /\ UNCHANGED << session, stderr_thread, world, loc, ghost >>
  /\ UNCHANGED pure

\* Mutant of StopWaitTimeout: the timeout is raised before the grace period is over.
StopWaitTimeout_early(t) ==
  /\ pc[t] = "p_wait"
  /\ Alive(process[1])
  /\ pc' = [pc EXCEPT ![t] = "p_kill"]
  /\ ghost' = [ghost EXCEPT ![t].timedOut = TRUE]
  /\ UNCHANGED << lock, session, stderr_thread, world, loc, result >>
  /\ UNCHANGED pure

\* Lines 116-117: the timeout expires with the process alive, TimeoutExpired.
StopWaitTimeout(t) ==
  /\ pc[t] = "p_wait"
  /\ Alive(process[1])
  /\ loc[t].waited = GraceSeconds
  /\ pc' = [pc EXCEPT ![t] = "p_kill"]
  /\ ghost' = [ghost EXCEPT ![t].timedOut = TRUE]
  /\ UNCHANGED << lock, session, stderr_thread, world, loc, result >>
  /\ UNCHANGED pure

\* Lines 118-119: self._process.kill(), then return True, "Stop signal sent."
StopKill(t) ==
  /\ pc[t] = "p_kill"
  /\ procs' = Deliver(process[1], "sigkill")
  /\ result' = [result EXCEPT ![t] = [NoResult EXCEPT !.returned = TRUE,
                        !.ok = TRUE, !.msg = "Stop signal sent."]]
  /\ ghost' = [ghost EXCEPT ![t].effects = @ \cup {"kill"}, ![t].kills = @ + 1]
  /\ lock' = NoLock
  /\ pc' = [pc EXCEPT ![t] = "done"]
  /\ UNCHANGED loc
  /\ UNCHANGED << session, stderr_thread, pipe, coll, logfile, dirExists >>
  /\ UNCHANGED pure

\* ----------------------------------------------------------------- status
\* The positions of start_capture at which self._process is the new process and
\* self._duration_seconds is still the previous session's.
MidUpdate == {"s_clear", "s_started", "s_duration"}

StatusCall(t) ==
  /\ pc[t] = "idle"
  /\ pc' = [pc EXCEPT ![t] = "q_running"]
  /\ UNCHANGED loc
  /\ result' = [result EXCEPT ![t] = NoResult]
  /\ ghost' = [ghost EXCEPT ![t] = [NoGhost EXCEPT !.op = "status"]]
  /\ UNCHANGED << lock, session, stderr_thread, world >>
  /\ UNCHANGED pure

\* Line 122: running = self.is_running()
StatusRunning(t) ==
  /\ pc[t] = "q_running"
  /\ loc' = [loc EXCEPT ![t].snap.running = is_running]
  /\ pc' = [pc EXCEPT ![t] = "q_output"]
  /\ UNCHANGED << lock, session, stderr_thread, world, result, ghost >>
  /\ UNCHANGED pure

\* Line 125: output_file=self._output_file
StatusOutputFile(t) ==
  /\ pc[t] = "q_output"
  /\ loc' = [loc EXCEPT ![t].snap.output_file = output_file]
  /\ pc' = [pc EXCEPT ![t] = "q_started"]
  /\ UNCHANGED << lock, session, stderr_thread, world, result, ghost >>
  /\ UNCHANGED pure

\* Line 126: started_at=self._started_at
StatusStartedAt(t) ==
  /\ pc[t] = "q_started"
  /\ loc' = [loc EXCEPT ![t].snap.started_at = started_at]
  /\ pc' = [pc EXCEPT ![t] = "q_duration"]
  /\ UNCHANGED << lock, session, stderr_thread, world, result, ghost >>
  /\ UNCHANGED pure

\* Line 127: duration_seconds=self._duration_seconds
StatusDuration(t) ==
  /\ pc[t] = "q_duration"
  /\ loc' = [loc EXCEPT ![t].snap.duration_seconds = duration_seconds]
  /\ pc' = [pc EXCEPT ![t] = "q_tail"]
  /\ ghost' = [ghost EXCEPT ![t].sawProc = process,
                            ![t].torn = \E u \in Callers : pc[u] \in MidUpdate]
  /\ UNCHANGED << lock, session, stderr_thread, world, result >>
  /\ UNCHANGED pure

\* Lines 123 and 128: stderr_tail=list(self._stderr_tail), and the return.
StatusTail(t) ==
  /\ pc[t] = "q_tail"
  /\ result' = [result EXCEPT ![t] = [NoResult EXCEPT !.returned = TRUE, !.ok = TRUE,
                        !.status = [loc[t].snap EXCEPT !.stderr_tail = stderr_tail]]]
  /\ pc' = [pc EXCEPT ![t] = "done"]
  /\ UNCHANGED loc
  /\ UNCHANGED << lock, session, stderr_thread, world, ghost >>
  /\ UNCHANGED pure

\* The caller takes the result; its next call starts afresh.
Return(t) ==
  /\ pc[t] = "done"
  /\ pc' = [pc EXCEPT ![t] = "idle"]
  /\ loc' = [loc EXCEPT ![t] = NoLocals]
  /\ result' = [result EXCEPT ![t] = NoResult]
  /\ ghost' = [ghost EXCEPT ![t] = NoGhost]
  /\ UNCHANGED << lock, session, stderr_thread, world >>
  /\ UNCHANGED pure

\* ------------------------------------------------- the external process
\* The process writes a diagnostic line to its stderr pipe.
ProcEmit(p) ==
  /\ Alive(p)
  /\ procs[p].emitted < MaxLines
  /\ procs' = [procs EXCEPT ![p].emitted = @ + 1]
  /\ pipe' = [pipe EXCEPT ![p] = Append(@, << p, procs[p].emitted + 1 >>)]
  /\ UNCHANGED << lock, session, stderr_thread, coll, logfile, dirExists, pc, loc,
                  result, ghost >>
  /\ UNCHANGED pure

\* Mutant of ProcExit: the exit of the process retires the Session's output path.
ProcExit_retires(p) ==
  /\ Alive(p)
  /\ procs' = [procs EXCEPT ![p] = [NoProc EXCEPT !.state = "exited", !.args = procs[p].args]]
  /\ output_file' = None
  /\ UNCHANGED << lock, process, stderr_tail, started_at, duration_seconds,
                  stderr_thread, pipe, coll, logfile, dirExists, pc, loc, result,
                  ghost, pure >>

\* The process terminates: its time limit is reached, it fails, or it obeys or
\* is killed by a signal.
ProcExit(p) ==
  /\ Alive(p)
  /\ procs' = [procs EXCEPT ![p] = [NoProc EXCEPT !.state = "exited", !.args = procs[p].args]]
  /\ UNCHANGED << lock, session, stderr_thread, pipe, coll, logfile, dirExists, pc,
                  loc, result, ghost >>
  /\ UNCHANGED pure

\* ------------------------------------------------------ _capture_stderr
\* Lines 100-104, one iteration: a line is read, appended to the tail, written
\* to the log.
CollectLine(p) ==
  /\ coll[p] = "run"
  /\ pipe[p] # << >>
  /\ stderr_tail' = DequeAppend(stderr_tail, Head(pipe[p]))
  /\ logfile' = Append(logfile, [kind |-> "line", handle |-> p, line |-> Head(pipe[p])[2]])
  /\ pipe' = [pipe EXCEPT ![p] = Tail(@)]
  /\ UNCHANGED << lock, process, started_at, duration_seconds, output_file,
                  stderr_thread, procs, coll, dirExists, pc, loc, result, ghost >>
  /\ UNCHANGED pure

\* Mutant of CollectEnd: the collector gives up as soon as the process has
\* exited, whatever is left in the pipe.
CollectEnd_atExit(p) ==
  /\ coll[p] = "run"
  /\ ~Alive(p)
  /\ logfile' = Append(logfile, [kind |-> "end", handle |-> p, line |-> 0])
  /\ coll' = [coll EXCEPT ![p] = "done"]
  /\ UNCHANGED << lock, session, stderr_thread, procs, pipe, dirExists, pc, loc,
                  result, ghost, pure >>

\* Lines 105-107: end of stream (the pipe is empty and its writer is gone), the
\* end marker, the handle closed.
CollectEnd(p) ==
  /\ coll[p] = "run"
  /\ pipe[p] = << >>
  /\ ~Alive(p)
  /\ logfile' = Append(logfile, [kind |-> "end", handle |-> p, line |-> 0])
  /\ coll' = [coll EXCEPT ![p] = "done"]
  /\ UNCHANGED << lock, session, stderr_thread, procs, pipe, dirExists, pc, loc,
                  result, ghost >>
  /\ UNCHANGED pure

\* ------------------------------------------------------------------ next
StartStep(t) ==
  \/ StartCall(t)
  \/ StartAcquire(t)
  \/ \E o \in OptionSet : StartCheck(t, o)
  \/ StartPrepare(t)
  \/ StartSpawn(t)
  \/ StartSpawnFails(t)
  \/ StartSetProcess(t)
  \/ StartClearTail(t)
  \/ StartSetStartedAt(t)
  \/ StartSetDuration(t)
  \/ StartSetOutputFile(t)
  \/ StartThread(t)

StopStep(t) ==
  \/ StopCall(t)
  \/ StopAcquire(t)
  \/ StopCheck(t)
  \/ StopSignal(t)
  \/ StopWaitPasses(t)
  \/ StopWaitExited(t)
  \/ StopWaitTimeout(t)
  \/ StopKill(t)

StatusStep(t) ==
  \/ StatusCall(t)
  \/ StatusRunning(t)
  \/ StatusOutputFile(t)
  \/ StatusStartedAt(t)
  \/ StatusDuration(t)
  \/ StatusTail(t)

WorldStep ==
  \/ \E p \in Pids : ProcEmit(p)
  \/ \E p \in Pids : ProcExit(p)
  \/ \E p \in Pids : CollectLine(p)
  \/ \E p \in Pids : CollectEnd(p)

\* Two controllers race start_capture and stop_capture against each other, the
\* processes and the collectors.
Next ==
  \/ \E t \in Controllers : StartStep(t) \/ StopStep(t) \/ Return(t)
  \/ WorldStep

Spec == Init /\ [][Next]_vars

\* One controller and one observer: status runs against start_capture and
\* stop_capture, the processes and the collectors.  status writes no shared
\* state, so an observer changes nothing a controller can see.
NextStatus ==
  \/ \E t \in {"c1"} : StartStep(t) \/ StopStep(t) \/ Return(t)
  \/ \E t \in Observers : StatusStep(t) \/ Return(t)
  \/ WorldStep

SpecStatus == Init /\ [][NextStatus]_vars

\* A process that was sent SIGKILL terminates.
KilledExit(p) == procs[p].sigkill /\ ProcExit(p)

\* One controller calls start_capture and stop_capture in turn.  stop_capture
\* holds the lock from its check to its return, so no other call acts meanwhile.
NextFair ==
  \/ \E t \in {"c1"} : StartStep(t) \/ StopStep(t) \/ Return(t)
  \/ WorldStep

\* Scheduling: a thread inside stop_capture keeps running, the clock of its wait
\* keeps running, and the operating system ends a killed process.
Fairness ==
  /\ WF_vars(StopSignal("c1"))
  /\ WF_vars(StopWaitPasses("c1"))
  /\ WF_vars(StopWaitExited("c1"))
  /\ WF_vars(StopWaitTimeout("c1"))
  /\ WF_vars(StopKill("c1"))
  /\ \A p \in Pids : WF_vars(KilledExit(p))

SpecFair == Init /\ [][NextFair]_vars /\ Fairness

\* Scheduling of the collectors: a collector thread that can read a line or
\* has reached the end of its stream gets to run.
FairCollect ==
  \A p \in Pids : WF_vars(CollectLine(p)) /\ WF_vars(CollectEnd(p))

\* One controller starts and stops captures while the collectors are scheduled.
SpecCollect == Init /\ [][NextFair]_vars /\ FairCollect

\* ------------------------------------------- the duration of a request
\* The duration strings a request may carry: every string of up to MaxDurationChars
\* characters over digits, sign, underscore, blank, colon and a letter, and the
\* full-width examples.
DurationChars == { "0", "1", "-", "_", " ", ":", "x" }
DurationExamples ==
  { << "0", "1", ":", "0", "2", ":", "0", "3" >>,
    << "0", "0", ":", "0", "0", ":", "0", "0" >>,
    << "-", "1", ":", "0", "0", ":", "0", "0" >>,
    << "0", "2", ":", "0", "0", ":", "0", "0" >>,
    << "1", "_", "0", ":", "0", "0", ":", "0", "0" >> }
DurationInputs ==
  UNION { [ 1..n -> DurationChars ] : n \in 0..MaxDurationChars } \cup DurationExamples

InitDuration ==
  /\ InitManager
  /\ arg \in DurationInputs
  /\ ret = NoReturn

\* parse_duration(arg)
CallParseDuration ==
  /\ ret.fn = "none"
  /\ ret' = parse_duration(arg)
  /\ UNCHANGED << arg, manager >>

\* build_options(..., duration=arg, ...) as the handlers of main.py call it
CallBuildOptions(video_device, dry_run, test_preview) ==
  /\ ret.fn = "none"
  /\ ret' = build_options(video_device, "hw:1,0", "composite", arg,
                          "archival_lossless", "mkv", "capture", "", dry_run,
                          test_preview)
  /\ UNCHANGED << arg, manager >>

NextDuration ==
  \/ CallParseDuration
  \/ \E vd \in {"", "/dev/video0"}, dr \in {"", "on"}, tp \in {"", "on"} :
       CallBuildOptions(vd, dr, tp)

SpecDuration == InitDuration /\ [][NextDuration]_vars

\* ------------------------------------------------ the name of a file
\* The prefixes and labels a request may carry: every string of up to
\* MaxNameChars characters over a letter, a digit, hyphen, underscore, blank and
\* slash, and a longer example.
NameChars == { "a", "1", "-", "_", " ", "/" }
NameExamples == { << " ", " ", "a", "/", "b", "*", "c", " ", " " >> }
NameInputs == UNION { [ 1..n -> NameChars ] : n \in 0..MaxNameChars } \cup NameExamples

InitSanitize ==
  /\ InitManager
  /\ arg \in NameInputs
  /\ ret = NoReturn

\* sanitize_filename(arg)
CallSanitize ==
  /\ ret.fn = "none"
  /\ ret' = Returns("sanitize_filename", sanitize_filename(arg))
  /\ UNCHANGED << arg, manager >>

\* sanitize_filename applied to what sanitize_filename returned
CallSanitizeAgain ==
  /\ ret.fn = "sanitize_filename"
  /\ ret' = Returns("sanitize_filename twice",
                    [ once |-> ret.value, twice |-> sanitize_filename(ret.value) ])
  /\ UNCHANGED << arg, manager >>

NextSanitize == CallSanitize \/ CallSanitizeAgain

SpecSanitize == InitSanitize /\ [][NextSanitize]_vars

\* ---------------------------------------------------------------- claims
Rejected == [NoResult EXCEPT !.returned = TRUE, !.msg = "Capture already running."]
NotRunning == [NoResult EXCEPT !.returned = TRUE, !.msg = "No capture running."]
StopSent == [NoResult EXCEPT !.returned = TRUE, !.ok = TRUE, !.msg = "Stop signal sent."]

\* C1: at most one spawned process is alive at any time, and start_capture is
\* about to spawn (it has passed its check and holds the lock) only while no
\* spawned process is alive.
C1_AtMostOneAlive ==
  /\ \A p, q \in Pids : Alive(p) /\ Alive(q) => p = q
  /\ \A t \in Callers : pc[t] \in {"s_prepare", "s_spawn"} => ~AnyAlive

\* A second process is alive after the first has terminated.
C1_Witness == procs[1].state = "exited" /\ Alive(2)

\* C2: the step in which start_capture checks while a process is alive ends the
\* call with (False, "Capture already running.", None) and changes no Session
\* field, no process, no pipe, no collector, not the log and not the directory.
C2_StartWhileRunningRejected ==
  [][ \A t \in Callers :
        (pc[t] = "s_check" /\ pc'[t] # "s_check" /\ AnyAlive)
        => /\ pc'[t] = "done"
           /\ result'[t] = Rejected
           /\ session' = session
           /\ stderr_thread' = stderr_thread
           /\ world' = world ]_vars

\* A start_capture call returned AlreadyRunning while the process of the earlier
\* call was alive.
C2_Witness ==
  \E t \in Callers :
    /\ pc[t] = "done" /\ ghost[t].op = "start"
    /\ result[t] = Rejected /\ ghost[t].aliveAtCheck /\ AnyAlive

\* C3: the step in which stop_capture checks while no process is alive ends the
\* call with (False, "No capture running."), delivers no signal (no process
\* changes) and changes no Session field.
C3_StopWhenIdleRejected ==
  [][ \A t \in Callers :
        (pc[t] = "p_check" /\ pc'[t] # "p_check" /\ ~AnyAlive)
        => /\ pc'[t] = "done"
           /\ result'[t] = NotRunning
           /\ ghost'[t].effects = {}
           /\ session' = session
           /\ stderr_thread' = stderr_thread
           /\ world' = world ]_vars

\* A stop_capture call returned NotRunning after the last process had terminated.
C3_Witness ==
  \E t \in Callers :
    /\ pc[t] = "done" /\ ghost[t].op = "stop" /\ result[t] = NotRunning
    /\ process # None /\ ~ghost[t].aliveAtCheck

\* C6: a stop_capture call that found a live process sends SIGINT first, raises
\* the timeout only after the whole grace period, calls kill at most once, only
\* after the timeout, and, when it returns without a kill, the process has
\* terminated.
C6_TwoPhaseStop ==
  \A t \in Callers :
    ghost[t].op = "stop" =>
      /\ ghost[t].kills <= 1
      /\ pc[t] \in {"p_wait", "p_kill"} => "send_signal" \in ghost[t].effects
      /\ ghost[t].waited <= GraceSeconds
      /\ (pc[t] = "p_kill" \/ ghost[t].kills = 1)
           => /\ "send_signal" \in ghost[t].effects
              /\ ghost[t].waited = GraceSeconds
              /\ ghost[t].timedOut
      /\ (pc[t] = "done" /\ result[t].ok)
           => /\ "send_signal" \in ghost[t].effects
              /\ ghost[t].kills = 1 <=> ghost[t].timedOut
              /\ ghost[t].kills = 0 => procs[ghost[t].target].state = "exited"

\* A stop_capture call escalated to kill and returned.
C6_Witness ==
  \E t \in Callers :
    pc[t] = "done" /\ ghost[t].op = "stop" /\ ghost[t].kills = 1 /\ result[t].ok

\* C7: a stop_capture call that found a live process returns (True, "Stop signal
\* sent."), with or without the escalation, and the process it found terminates;
\* once no process is alive is_running is false, which is what status reports
\* and what lets start_capture pass its check.
C7_StopSucceedsAndProcessEnds ==
  /\ [](\A t \in Callers :
         (ghost[t].op = "stop" /\ pc[t] = "done" /\ ghost[t].target # 0)
         => result[t] = StopSent)
  /\ [](~AnyAlive => ~is_running)
  /\ \A t \in Controllers : \A p \in Pids :
       (pc[t] = "p_signal" /\ process = Some(p))
       ~> (pc[t] = "done" /\ result[t] = StopSent /\ ghost[t].target = p)
  /\ \A t \in Controllers : \A p \in Pids :
       (pc[t] = "p_signal" /\ process = Some(p)) ~> ~Alive(p)

\* A stop_capture call returned success after a kill, and the process it killed
\* has terminated.
C7_Witness ==
  \E t \in Callers :
    /\ pc[t] = "done" /\ ghost[t].op = "stop" /\ result[t] = StopSent
    /\ ghost[t].kills = 1 /\ procs[ghost[t].target].state = "exited"

\* C8: a stop_capture call returns (True, "Stop signal sent.") only if its
\* send_signal reached a live process.
C8_SuccessMeansDelivered ==
  \A t \in Callers :
    (pc[t] = "done" /\ ghost[t].op = "stop" /\ result[t] = StopSent)
    => ghost[t].delivered


\* The snapshot a completed status() call returned.
StatusReturned(t) == pc[t] = "done" /\ ghost[t].op = "status"

\* C4: no status() call returns running = true with output_file absent.
C4_RunningHasOutputFile ==
  \A t \in Callers :
    StatusReturned(t)
    => ~(result[t].status.running /\ result[t].status.output_file = None)

\* The argument that follows "-t" in a command.
TimeLimitArg(cmd) ==
  cmd[(CHOOSE i \in 1..(Len(cmd) - 1) : cmd[i] = "-t") + 1]

\* The snapshot holds the fields of session p only: the path its command ends
\* with, its start time, the duration its command carries, lines of p alone.
SnapshotOf(st, p) ==
  /\ st.output_file = Some(procs[p].args[Len(procs[p].args)])
  /\ st.started_at = Some(p)
  /\ st.duration_seconds # None
  /\ ToString(st.duration_seconds[1]) = TimeLimitArg(procs[p].args)
  /\ \A i \in DOMAIN st.stderr_tail : st.stderr_tail[i][1] = p

\* C5: every snapshot status() returns is the empty Session of a manager that
\* never started, or the fields of one and the same Session.
C5_StatusIsOneSession ==
  \A t \in Callers :
    StatusReturned(t)
    => \/ [result[t].status EXCEPT !.running = FALSE] = NoStatus
       \/ \E p \in Spawned : SnapshotOf(result[t].status, p)

\* What the claim says the duration of a request is.
Expected(o) == IF o.test_preview THEN 10 ELSE o.duration_seconds

\* C9: past its check, a start_capture call's duration is 10 with the preview
\* flag and the requested duration without it; the command (of the spawned
\* process, or the one a dry run renders) carries it after "-t"; the Session
\* records it; and a status() that reads the duration while no start_capture is
\* between its writes of the process and of the duration reports the duration
\* the current process was given.
C9_EffectiveDuration ==
  /\ \A t \in Callers :
       LET o == loc[t].options
       IN /\ pc[t] \in {"s_prepare", "s_spawn", "s_process", "s_clear", "s_started",
                        "s_duration", "s_output", "s_thread"}
               => /\ loc[t].duration = Expected(o)
                  /\ TimeLimitArg(loc[t].cmd) = ToString(Expected(o))
          /\ pc[t] \in {"s_process", "s_clear", "s_started", "s_duration", "s_output",
                        "s_thread"}
               => TimeLimitArg(procs[loc[t].proc].args) = ToString(Expected(o))
          /\ pc[t] \in {"s_output", "s_thread"}
               => duration_seconds = Some(Expected(o))
          /\ (pc[t] = "done" /\ ghost[t].op = "start" /\ result[t].ok)
               => IF o.dry_run
                  THEN TimeLimitArg(result[t].cmd) = ToString(Expected(o))
                  ELSE process = Some(loc[t].proc)
                         => duration_seconds = Some(Expected(o))
  /\ \A t \in Callers :
       (StatusReturned(t) /\ ~ghost[t].torn /\ ghost[t].sawProc # None)
       => /\ result[t].status.duration_seconds # None
          /\ ToString(result[t].status.duration_seconds[1])
               = TimeLimitArg(procs[ghost[t].sawProc[1]].args)

\* A start_capture with the preview flag and a requested duration of 7200 has
\* returned, and a status() call reports the process running with duration 10.
C9_Witness ==
  /\ \E t \in Controllers :
       /\ pc[t] = "done" /\ ghost[t].op = "start" /\ result[t].ok
       /\ loc[t].options.test_preview /\ ~loc[t].options.dry_run
       /\ loc[t].options.duration_seconds = 7200
  /\ \E t \in Observers :
       /\ StatusReturned(t) /\ result[t].status.running
       /\ result[t].status.duration_seconds = Some(10)

\* The lines the collector of process p has read, in the order it read them.
LinesRead(p) ==
  LET IsLineOf(e) == e.kind = "line" /\ e.handle = p
      written == SelectSeq(logfile, IsLineOf)
  IN [ i \in 1..Len(written) |-> << p, written[i].line >> ]

LastK(sq, k) ==
  IF Len(sq) <= k THEN sq ELSE SubSeq(sq, Len(sq) - k + 1, Len(sq))

\* C10: the tail never holds more than 50 entries, and once the collector of
\* the current session runs, the tail is the last min(n, 50) of the n lines it
\* has read, in order.
C10_TailIsLastLinesOfSession ==
  /\ Len(stderr_tail) <= TailCap
  /\ \A p \in Pids :
       (process = Some(p) /\ coll[p] # "none")
       => stderr_tail = LastK(LinesRead(p), 50)

Assigning == {"s_started", "s_duration", "s_output"}

\* C12: the output path, the start time and the effective duration of the
\* Session change only in a step of a start_capture call that is not a dry run and
\* has spawned its process; every other step (of status, of stop_capture, of a
\* rejected or dry-run start, of the process or of a collector) leaves the three
\* unchanged.
C12_SessionFieldsChangeOnlyInStart ==
  [][ << output_file, started_at, duration_seconds >>' #
        << output_file, started_at, duration_seconds >>
      => \E t \in Callers :
           /\ pc[t] \in Assigning /\ pc'[t] # pc[t]
           /\ ghost[t].op = "start"
           /\ ~loc[t].options.dry_run
           /\ "spawn" \in ghost[t].effects
           /\ lock = t
    ]_vars

\* The process of the only session has exited, stop_capture has answered since,
\* and a status() completed after the exit still shows that session's fields.
C12_Witness ==
  /\ process = Some(1) /\ procs[1].state = "exited" /\ procs[2].state = "unborn"
  /\ output_file # None /\ started_at # None /\ duration_seconds # None
  /\ pc["c1"] = "done" /\ ghost["c1"].op = "stop"
  /\ \E t \in Observers :
       /\ StatusReturned(t)
       /\ ~result[t].status.running
       /\ result[t].status.output_file = output_file
       /\ result[t].status.duration_seconds = duration_seconds

\* The caller holding the lock is inside stop_capture's wait(timeout=5) on a
\* process that is still alive.
StopIsWaiting ==
  \E u \in Callers : lock = u /\ pc[u] = "p_wait" /\ Alive(process[1])

\* C13: only stop_capture makes its caller wait on the external process: a
\* status() call in progress can always take its next step, and a start_capture
\* call is never held at the lock while the lock's holder waits out the grace
\* period on a live process.
C13_OnlyStopWaitsOnProcess ==
  /\ \A t \in Callers :
       pc[t] \in {"q_running", "q_output", "q_started", "q_duration", "q_tail"}
       => ENABLED StatusStep(t)
  /\ \A t \in Callers : pc[t] = "s_lock" => ~StopIsWaiting

\* C14: every CaptureOptions that build_options returns has duration_seconds > 0.
C14_BuiltDurationIsPositive ==
  (ret.fn = "build_options" /\ ~ret.raised) => ret.value.duration_seconds > 0

\* A component of a duration: an optional sign and then decimal digits only.
IsIntegerComponent(c) ==
  LET body == IF c # << >> /\ Head(c) \in {"-", "+"} THEN Tail(c) ELSE c
  IN body # << >> /\ \A i \in DOMAIN body : IsDigit(body[i])
ComponentValue(c) ==
  LET neg == Head(c) = "-"
      body == IF Head(c) \in {"-", "+"} THEN Tail(c) ELSE c
      n == Len(body)
      Pow10[k \in 0..n] == IF k = 0 THEN 1 ELSE 10 * Pow10[k - 1]
      Sum[k \in 0..n] == IF k = 0 THEN 0
                         ELSE Sum[k - 1] + DigitValue(body[k]) * Pow10[n - k]
  IN IF neg THEN 0 - Sum[n] ELSE Sum[n]
\* The positions of the colons of a string.
Colons(v) == { i \in DOMAIN v : v[i] = ":" }
\* "HH:MM:SS": exactly two colons, with an integer component before, between and
\* after them.
WellFormedDuration(v) ==
  /\ Cardinality(Colons(v)) = 2
  /\ LET a == CHOOSE i \in Colons(v) : \A j \in Colons(v) : i <= j
         b == CHOOSE i \in Colons(v) : \A j \in Colons(v) : j <= i
     IN /\ IsIntegerComponent(SubSeq(v, 1, a - 1))
        /\ IsIntegerComponent(SubSeq(v, a + 1, b - 1))
        /\ IsIntegerComponent(SubSeq(v, b + 1, Len(v)))
ExpectedSeconds(v) ==
  LET a == CHOOSE i \in Colons(v) : \A j \in Colons(v) : i <= j
      b == CHOOSE i \in Colons(v) : \A j \in Colons(v) : j <= i
  IN ComponentValue(SubSeq(v, 1, a - 1)) * 3600
       + ComponentValue(SubSeq(v, a + 1, b - 1)) * 60
       + ComponentValue(SubSeq(v, b + 1, Len(v)))

\* C15: parse_duration returns HH*3600 + MM*60 + SS for every well-formed
\* "HH:MM:SS" string and raises ValueError for every other string.
C15_ParseDurationExact ==
  ret.fn = "parse_duration"
  => IF WellFormedDuration(arg)
     THEN ~ret.raised /\ ret.value = ExpectedSeconds(arg)
     ELSE ret.raised

\* The characters a file name may keep.
Keeps(c) == c \in Letters \/ IsDigit(c) \/ c \in {"_", "-"}
\* v with each maximal run of other characters turned into one underscore: the
\* kept characters, and an underscore for the first character of every run.
RunsReplaced(v) ==
  LET K == { i \in DOMAIN v : Keeps(v[i]) \/ i = 1 \/ Keeps(v[i - 1]) }
      Nth(n) == CHOOSE i \in K : Cardinality({ j \in K : j <= i }) = n
  IN [ n \in 1..Cardinality(K) |-> IF Keeps(v[Nth(n)]) THEN v[Nth(n)] ELSE "_" ]
\* r without its leading and trailing underscores.
Trimmed(r) ==
  LET N == { i \in DOMAIN r : r[i] # "_" }
  IN IF N = {} THEN << >>
     ELSE SubSeq(r, CHOOSE i \in N : \A j \in N : i <= j,
                    CHOOSE i \in N : \A j \in N : j <= i)
ExpectedName(v) ==
  IF Trimmed(RunsReplaced(v)) = << >> THEN << "c", "a", "p", "t", "u", "r", "e" >>
  ELSE Trimmed(RunsReplaced(v))

\* C16: sanitize_filename returns a non-empty string of letters, digits,
\* underscore and hyphen with no underscore at either end, which is its input
\* with every maximal run of other characters replaced by one underscore and
\* then trimmed, or "capture" where that is empty; applied to its own result it
\* returns that result.
C16_SanitizeFilename ==
  /\ ret.fn = "sanitize_filename"
     => /\ ret.value # << >>
        /\ \A i \in DOMAIN ret.value : Keeps(ret.value[i])
        /\ ret.value[1] # "_" /\ ret.value[Len(ret.value)] # "_"
        /\ ret.value = ExpectedName(arg)
  /\ ret.fn = "sanitize_filename twice" => ret.value.twice = ret.value.once

\* sanitize_filename has been applied twice to a name with a blank at the front,
\* a run of two unsafe characters inside and an underscore at the end.
C16_Witness ==
  /\ ret.fn = "sanitize_filename twice"
  /\ arg = << " ", "a", "/", " ", "_" >>
  /\ ret.value.once = << "a" >>

\* The positions inside the with self._lock: blocks of start_capture and
\* stop_capture.
InsideLock ==
  { "s_check", "s_prepare", "s_spawn", "s_process", "s_clear", "s_started",
    "s_duration", "s_output", "s_thread", "p_check", "p_signal", "p_wait", "p_kill" }

\* C17: at most one start_capture or stop_capture call is inside its locked
\* block at a time, that call is the holder of the lock, and a call that has
\* returned or raised (by any exit path) no longer holds it.
C17_StartStopMutuallyExclusive ==
  /\ \A t, u \in Callers : pc[t] \in InsideLock /\ pc[u] \in InsideLock => t = u
  /\ \A t \in Callers : pc[t] \in InsideLock <=> lock = t
  /\ \A t \in Callers : pc[t] \in {"done", "idle"} => lock # t
  /\ (\A t \in Callers : pc[t] \notin InsideLock) => lock = NoLock

\* One caller is waiting out the grace period inside stop_capture while the
\* other has called start_capture and stands at the lock.
C17_Witness ==
  /\ pc["c1"] = "p_wait" /\ lock = "c1" /\ Alive(process[1])
  /\ loc["c1"].waited = GraceSeconds
  /\ pc["c2"] = "s_lock"

\* What the collector of process p has put in the log, by position.
LinesOf(p) == { i \in DOMAIN logfile : logfile[i].kind = "line" /\ logfile[i].handle = p }
EndsOf(p) == { i \in DOMAIN logfile : logfile[i].kind = "end" /\ logfile[i].handle = p }

\* A collector that has not been launched has written nothing; one that runs has
\* written no end marker; one that has finished has read its pipe empty and has
\* written exactly one end marker, after all its lines.
CollectorLog ==
  \A p \in Pids :
    /\ coll[p] = "none" => LinesOf(p) = {} /\ EndsOf(p) = {}
    /\ coll[p] = "run" => EndsOf(p) = {}
    /\ coll[p] = "done"
       => /\ Cardinality(EndsOf(p)) = 1
          /\ \A e \in EndsOf(p) : \A i \in LinesOf(p) : i < e
          /\ pipe[p] = << >>
          /\ ~Alive(p)

\* A collector is launched in, and only in, the step in which a start_capture
\* call returns "Capture started.", and it is the collector of that call's
\* process; a collector finishes only in a step taken at the end of its stream;
\* nothing else changes a collector.
CollectorSteps ==
  /\ \A t \in Callers :
       (result'[t].msg = "Capture started." /\ result[t].msg # "Capture started.")
       => /\ coll[ghost[t].target] = "none"
          /\ coll' = [coll EXCEPT ![ghost[t].target] = "run"]
  /\ \A p \in Pids :
       coll'[p] # coll[p]
       => \/ /\ coll[p] = "none" /\ coll'[p] = "run"
             /\ \E t \in Callers : /\ ghost[t].target = p
                                   /\ result'[t].msg = "Capture started."
                                   /\ result[t].msg # "Capture started."
          \/ /\ coll[p] = "run" /\ coll'[p] = "done"
             /\ ~Alive(p) /\ pipe[p] = << >>
             /\ UNCHANGED << pc, lock, session >>

\* C18: one collector is launched per successful start_capture that is not a dry
\* run; it ends only at the end of its process's stream; once the process has
\* exited the collector eventually writes one end marker, after every line of
\* that session, and nothing after it; stop_capture and later start_capture
\* calls do not end it.
C18_CollectorRunsToEndOfStream ==
  /\ []CollectorLog
  /\ [][CollectorSteps]_vars
  /\ \A p \in Pids : (coll[p] = "run" /\ ~Alive(p)) ~> (coll[p] = "done")

\* The collector of the first session has finished with a line in the log, a
\* second session has been started since and its collector runs.
C18_Witness ==
  /\ coll[1] = "done" /\ LinesOf(1) # {}
  /\ process = Some(2) /\ coll[2] = "run"

\* C19: once start_capture has cleared the tail for the process it spawned, the
\* tail holds lines of that process only.
C19_TailHoldsNewestSessionOnly ==
  \A p \in Pids :
    (process = Some(p) /\ \A t \in Callers : pc[t] # "s_clear")
    => \A i \in DOMAIN stderr_tail : stderr_tail[i][1] = p

\* C20: a start marker is written to the log only after the end marker of every
\* earlier session, so no record of an earlier session follows a later start
\* marker.
C20_LogSessionsDoNotInterleave ==
  \A i \in StartMarkers :
    /\ \A p \in Spawned : p < logfile[i].handle => \E e \in EndsOf(p) : e < i
    /\ \A j \in DOMAIN logfile :
         (j > i /\ logfile[j].kind \in {"line", "end"})
         => logfile[j].handle >= logfile[i].handle

\* C21: the step in which subprocess.Popen raises inside start_capture ends the
\* call with the exception, releases the lock, spawns no process, launches no
\* collector and leaves every Session field as it was; no process is alive after
\* it, so the check of a later start_capture passes.  The steps of the call
\* before it (the check and the preparation) change no Session field either.
C21_SpawnFailureLeavesIdle ==
  [][ \A t \in Callers :
        /\ (pc[t] = "s_spawn" /\ pc'[t] = "done")
           => /\ result'[t].raised /\ ~result'[t].returned /\ ~result'[t].ok
              /\ lock = t /\ lock' = NoLock
              /\ UNCHANGED << session, stderr_thread, procs, pipe, coll >>
              /\ "spawn" \notin ghost'[t].effects
              /\ ~AnyAlive' /\ ~is_running'
        /\ (pc[t] \in {"s_check", "s_prepare"} /\ pc'[t] # pc[t]
              /\ pc'[t] \in {"s_prepare", "s_spawn"})
           => UNCHANGED << session, stderr_thread, procs, pipe, coll >>
    ]_vars

\* A start_capture call has returned "Capture started." for the first process
\* after an earlier call wrote its start marker and failed to spawn.
C21_Witness ==
  /\ Cardinality(StartMarkers) = 2
  /\ Spawned = {1} /\ Alive(1) /\ process = Some(1) /\ coll[1] = "run"
  /\ \E t \in Callers : pc[t] = "done" /\ result[t].msg = "Capture started."
  /\ \E t \in Callers : pc[t] = "done" /\ result[t].raised

====
